---- MODULE Spec2Model ----
(***************************************************************************)
(* SimCLR training on CIFAR10 (src/simclr.py): the paired dataset, the     *)
(* flattening of a batch of view pairs, the NT-Xent target vector, the     *)
(* cosine learning-rate multiplier and the training loop of train().       *)
(*                                                                         *)
(* Real numbers are fixed point: Unit stands for 1.0, so a learning rate   *)
(* of 0.6 is 6000 and the floor 1e-3 is 10.  Tensors are a shape plus a    *)
(* row-major storage, which is what torch.stack and Tensor.view act on.    *)
(* Python indices are kept 0-based; TLA+ sequences are 1-based, so element *)
(* i of a tensor is storage[i + 1].                                        *)
(***************************************************************************)
EXTENDS Integers, Sequences, FiniteSets, TLC

\* Bounds of the model.
MaxEpochs == 3
MaxBatch == 2
MaxData == 4
MaxLogInterval == 2

\* Fixed-point unit (1.0), np.pi and the lr_min literal of train (1e-3).
Unit == 10000
np_pi == 31416
lr_min_literal == 10

Whitelist == {"resnet18", "resnet34"}
Backbones == Whitelist \cup {"vgg16"}
\* 0.0005, 0.001, 0.6, 1.0, 1.5
LearningRates == {5, 10, 6000, 10000, 15000}

VARIABLES
    args,            \* the hydra config
    cuda_available,  \* torch.cuda.is_available()
    train_set,       \* len(train_set): images are indexed 0 .. train_set - 1
    pc,              \* position in train()
    raised,          \* an exception has been raised in this run
    base_encoder,    \* what eval(args.backbone) resolved, "none" before
    step_count,      \* scheduler.last_epoch, -1 before the scheduler exists
    lr_factor,       \* the multiplier the optimizer currently holds
    lr_history,      \* every multiplier the scheduler computed, in order
    epoch,           \* the loop variable of line 99
    remaining,       \* indices the shuffling sampler has not yielded this epoch
    batch_ids,       \* the indices of the current batch, in the order drawn
    batch_idx,       \* batches the loader has yielded this epoch
    x,               \* the batch tensor (collated, then flattened)
    rep,             \* rows of the representation matrix, 0 before a forward
    targets,         \* the target vector nt_xent built for this batch
    trace,           \* the events of the current batch's step, in order
    n_forward,       \* forward passes of the run
    n_updates,       \* optimizer updates of the run
    applied,         \* per update: the scheduler step and multiplier in force
    meter_count,     \* loss_meter updates of this epoch
    checkpoints      \* torch.save calls that succeeded, in order

vars == <<args, cuda_available, train_set, pc, raised, base_encoder, step_count,
          lr_factor, lr_history, epoch, remaining, batch_ids, batch_idx, x, rep,
          targets, trace, n_forward, n_updates, applied, meter_count, checkpoints>>

----------------------------------------------------------------------------
\* Tensors

EmptyTensor == [sizes |-> <<0>>, storage |-> <<>>]

RECURSIVE Numel(_)
Numel(sizes) == IF sizes = <<>> THEN 1 ELSE Head(sizes) * Numel(Tail(sizes))

RECURSIVE ConcatStorage(_)
ConcatStorage(ts) ==
    IF ts = <<>> THEN <<>> ELSE Head(ts).storage \o ConcatStorage(Tail(ts))

\* torch.stack along dim 0: a new leading dimension, the storages one after another.
Stack(ts) == [sizes |-> <<Len(ts)>> \o ts[1].sizes, storage |-> ConcatStorage(ts)]

\* Tensor.view: the same storage under a new shape.
View(t, sizes) == [sizes |-> sizes, storage |-> t.storage]

\* Element i (0-based) of a tensor whose leading dimension indexes views.
At(t, i) == t.storage[i + 1]

\* CIFAR10Pair.__getitem__: two transform draws of image idx, stacked.
Transform(idx, draw) == <<[sample |-> idx, draw |-> draw]>>

GetItem(idx) ==
    LET imgs == << [sizes |-> <<>>, storage |-> Transform(idx, 0)],
                   [sizes |-> <<>>, storage |-> Transform(idx, 1)] >>
    IN  Stack(imgs)

----------------------------------------------------------------------------
\* nt_xent's targets

Arange(n) == [i \in 0..(n - 1) |-> i]

\* t[start::step] += delta
AddStrided(t, start, step, delta) ==
    [i \in DOMAIN t |->
        IF i >= start /\ (i - start) % step = 0 THEN t[i] + delta ELSE t[i]]

SwappedStrideTargets(n) == AddStrided(AddStrided(Arange(n), 1, 2, 1), 0, 2, -1)

Targets(n) == AddStrided(AddStrided(Arange(n), 0, 2, 1), 1, 2, -1)

----------------------------------------------------------------------------
\* get_lr, in fixed point: the one rounding is the final division

\* cos on [0, pi/2], Taylor series in fixed point.
CosSeries(a) ==
    LET a2 == (a * a) \div Unit
        t1 == (Unit * a2) \div (2 * Unit)
        t2 == (t1 * a2) \div (12 * Unit)
        t3 == (t2 * a2) \div (30 * Unit)
        t4 == (t3 * a2) \div (56 * Unit)
        t5 == (t4 * a2) \div (90 * Unit)
    IN  Unit - t1 + t2 - t3 + t4 - t5

\* cos on [0, 2 pi]: cos(a) = cos(2 pi - a) = -cos(pi - a)
np_cos(a) ==
    LET r == IF a > np_pi THEN 2 * np_pi - a ELSE a
    IN  IF r <= np_pi \div 2 THEN CosSeries(r) ELSE -CosSeries(np_pi - r)

get_lr(step, total_steps, lr_max, lr_min) ==
    lr_min + ((lr_max - lr_min)
              * (Unit + np_cos((((step * Unit) \div total_steps) * np_pi) \div Unit)))
             \div (2 * Unit)

\* len(train_loader) with drop_last=True
LenLoader(n, batch_size) == n \div batch_size

TotalSteps == args.epochs * LenLoader(train_set, args.batch_size)

\* the lr_lambda handed to LambdaLR
lr_lambda(step) == get_lr(step, TotalSteps, args.learning_rate, lr_min_literal)

----------------------------------------------------------------------------
\* The run

\* The ways a shuffling sampler yields the next n indices out of those left.
SamplerDraws(left, n) ==
    {p \in [1..n -> left] : \A i, j \in 1..n : i # j => p[i] # p[j]}

StepOrder == <<"zero_grad", "forward", "loss", "backward",
               "optimizer_step", "scheduler_step", "meter_update">>

CheckpointName(backbone, e) == [backbone |-> backbone, epoch |-> e]

Init ==
    /\ args \in [backbone : Backbones,
                 learning_rate : LearningRates,
                 epochs : 0..MaxEpochs,
                 batch_size : 1..MaxBatch,
                 log_interval : 0..MaxLogInterval]
    /\ cuda_available \in BOOLEAN
    /\ train_set \in 0..MaxData
    /\ pc = "assert_cuda"
    /\ raised = FALSE
    /\ base_encoder = "none"
    /\ step_count = -1
    /\ lr_factor = Unit
    /\ lr_history = <<>>
    /\ epoch = 0
    /\ remaining = {}
    /\ batch_ids = <<>>
    /\ batch_idx = 0
    /\ x = EmptyTensor
    /\ rep = 0
    /\ targets = <<>>
    /\ trace = <<>>
    /\ n_forward = 0
    /\ n_updates = 0
    /\ applied = <<>>
    /\ meter_count = 0
    /\ checkpoints = <<>>

Raise == pc' = "failed" /\ raised' = TRUE

\* line 58
AssertCuda ==
    /\ pc = "assert_cuda"
    /\ IF cuda_available THEN pc' = "assert_backbone" /\ UNCHANGED raised ELSE Raise
    /\ UNCHANGED <<args, cuda_available, train_set, base_encoder, step_count,
                   lr_factor, lr_history, epoch, remaining, batch_ids, batch_idx, x, rep, targets,
                   trace, n_forward, n_updates, applied, meter_count, checkpoints>>

AssertBackboneAnyName ==
    /\ pc = "assert_backbone"
    /\ pc' = "eval_backbone"
    /\ UNCHANGED <<args, cuda_available, train_set, raised, base_encoder, step_count,
                   lr_factor, lr_history, epoch, remaining, batch_ids, batch_idx, x, rep, targets,
                   trace, n_forward, n_updates, applied, meter_count, checkpoints>>

\* lines 61-75: the data set and loader are built, then the backbone is checked
AssertBackbone ==
    /\ pc = "assert_backbone"
    /\ IF args.backbone \in Whitelist
       THEN pc' = "eval_backbone" /\ UNCHANGED raised
       ELSE Raise
    /\ UNCHANGED <<args, cuda_available, train_set, base_encoder, step_count,
                   lr_factor, lr_history, epoch, remaining, batch_ids, batch_idx, x, rep, targets,
                   trace, n_forward, n_updates, applied, meter_count, checkpoints>>

\* lines 76-86: eval, the model, the optimizer
EvalBackbone ==
    /\ pc = "eval_backbone"
    /\ base_encoder' = args.backbone
    /\ pc' = "make_scheduler"
    /\ UNCHANGED <<args, cuda_available, train_set, raised, step_count,
                   lr_factor, lr_history, epoch, remaining, batch_ids, batch_idx, x, rep, targets,
                   trace, n_forward, n_updates, applied, meter_count, checkpoints>>

\* lines 89-98: LambdaLR's constructor takes its initial step, which calls
\* lr_lambda(0); step / total_steps raises ZeroDivisionError for an empty loader
MakeScheduler ==
    /\ pc = "make_scheduler"
    /\ IF TotalSteps = 0
       THEN /\ Raise
            /\ UNCHANGED <<step_count, lr_factor, lr_history>>
       ELSE /\ step_count' = 0
            /\ lr_factor' = lr_lambda(0)
            /\ lr_history' = <<lr_lambda(0)>>
            /\ pc' = "epoch_head"
            /\ UNCHANGED raised
    /\ UNCHANGED <<args, cuda_available, train_set, base_encoder, epoch, remaining,
                   batch_ids, batch_idx, x, rep, targets, trace, n_forward, n_updates, applied,
                   meter_count, checkpoints>>

EpochHeadInclusive ==
    /\ pc = "epoch_head"
    /\ IF epoch <= args.epochs
       THEN /\ epoch' = epoch + 1
            /\ meter_count' = 0
            /\ remaining' = 0..(train_set - 1)
            /\ batch_idx' = 0
            /\ pc' = "next_batch"
       ELSE /\ pc' = "done"
            /\ UNCHANGED <<epoch, meter_count, remaining, batch_idx>>
    /\ UNCHANGED <<args, cuda_available, train_set, raised, base_encoder, step_count,
                   lr_factor, lr_history, batch_ids, x, rep, targets, trace,
                   n_forward, n_updates, applied, checkpoints>>

\* lines 99-102: the next epoch of range(1, epochs + 1), a fresh loss meter and a
\* fresh iterator over the loader, with every index still to be yielded
EpochHead ==
    /\ pc = "epoch_head"
    /\ IF epoch < args.epochs
       THEN /\ epoch' = epoch + 1
            /\ meter_count' = 0
            /\ remaining' = 0..(train_set - 1)
            /\ batch_idx' = 0
            /\ pc' = "next_batch"
       ELSE /\ pc' = "done"
            /\ UNCHANGED <<epoch, meter_count, remaining, batch_idx>>
    /\ UNCHANGED <<args, cuda_available, train_set, raised, base_encoder, step_count,
                   lr_factor, lr_history, batch_ids, x, rep, targets, trace,
                   n_forward, n_updates, applied, checkpoints>>

\* The items of the given indices, collated with torch.stack.
Collate(ids) == Stack([k \in 1..Len(ids) |-> GetItem(ids[k])])

\* line 102: the loader yields the next full batch, or the epoch's loop ends
NextBatch ==
    /\ pc = "next_batch"
    /\ IF batch_idx < LenLoader(train_set, args.batch_size)
       THEN /\ \E ids \in SamplerDraws(remaining, args.batch_size) :
                  /\ batch_ids' = ids
                  /\ remaining' = remaining \ {ids[k] : k \in 1..args.batch_size}
                  /\ x' = Collate(ids)
            /\ batch_idx' = batch_idx + 1
            /\ trace' = <<>>
            /\ pc' = "flatten"
       ELSE /\ pc' = "epoch_end"
            /\ UNCHANGED <<x, batch_idx, trace, remaining, batch_ids>>
    /\ UNCHANGED <<args, cuda_available, train_set, raised, base_encoder, step_count,
                   lr_factor, lr_history, epoch, rep, targets, n_forward,
                   n_updates, applied, meter_count, checkpoints>>

\* torch.cat([x[:, 0], x[:, 1]]): every first view, then every second view
ViewsMajor(t) ==
    [sizes |-> <<t.sizes[1] * 2>>,
     storage |-> [i \in 1..Len(t.storage) |->
                     IF i <= t.sizes[1]
                     THEN t.storage[2 * i - 1]
                     ELSE t.storage[2 * (i - t.sizes[1])]]]

FlattenViewsMajor ==
    /\ pc = "flatten"
    /\ x' = ViewsMajor(x)
    /\ pc' = "zero_grad"
    /\ UNCHANGED <<args, cuda_available, train_set, raised, base_encoder, step_count,
                   lr_factor, lr_history, epoch, remaining, batch_ids, batch_idx, rep, targets,
                   trace, n_forward, n_updates, applied, meter_count, checkpoints>>

\* lines 103-104: x.view(sizes[0] * 2, ...); view raises when the element
\* counts differ
Flatten ==
    /\ pc = "flatten"
    /\ LET sizes == x.sizes
       IN  IF Numel(<<sizes[1] * 2>>) = Len(x.storage)
           THEN x' = View(x, <<sizes[1] * 2>>) /\ pc' = "zero_grad" /\ UNCHANGED raised
           ELSE Raise /\ UNCHANGED x
    /\ UNCHANGED <<args, cuda_available, train_set, base_encoder, step_count,
                   lr_factor, lr_history, epoch, remaining, batch_ids, batch_idx, rep, targets,
                   trace, n_forward, n_updates, applied, meter_count, checkpoints>>

\* line 106
ZeroGrad ==
    /\ pc = "zero_grad"
    /\ trace' = Append(trace, "zero_grad")
    /\ pc' = "forward"
    /\ UNCHANGED <<args, cuda_available, train_set, raised, base_encoder, step_count,
                   lr_factor, lr_history, epoch, remaining, batch_ids, batch_idx, x, rep, targets,
                   n_forward, n_updates, applied, meter_count, checkpoints>>

\* SimCLR.forward: one representation row per input view
SimCLRForward(t) == t.sizes[1]

\* line 107
Forward ==
    /\ pc = "forward"
    /\ rep' = SimCLRForward(x)
    /\ n_forward' = n_forward + 1
    /\ trace' = Append(trace, "forward")
    /\ pc' = "loss"
    /\ UNCHANGED <<args, cuda_available, train_set, raised, base_encoder, step_count,
                   lr_factor, lr_history, epoch, remaining, batch_ids, batch_idx, x, targets,
                   n_updates, applied, meter_count, checkpoints>>

ForwardRaisesRetried ==
    /\ pc = "forward"
    /\ raised' = TRUE
    /\ pc' = "zero_grad"
    /\ trace' = <<>>
    /\ UNCHANGED <<args, cuda_available, train_set, base_encoder, step_count,
                   lr_factor, lr_history, epoch, remaining, batch_ids, batch_idx, x, rep, targets,
                   n_forward, n_updates, applied, meter_count, checkpoints>>

\* line 107, the model raising: the exception leaves train
ForwardRaises ==
    /\ pc = "forward"
    /\ Raise
    /\ UNCHANGED <<args, cuda_available, train_set, base_encoder, step_count,
                   lr_factor, lr_history, epoch, remaining, batch_ids, batch_idx, x, rep, targets,
                   trace, n_forward, n_updates, applied, meter_count, checkpoints>>

\* line 108: nt_xent builds the targets; cross_entropy rejects a target that is
\* no row index
NtXent ==
    /\ pc = "loss"
    /\ targets' = Targets(rep)
    /\ IF \A i \in DOMAIN targets' : targets'[i] \in 0..(rep - 1)
       THEN /\ trace' = Append(trace, "loss")
            /\ pc' = "backward"
            /\ UNCHANGED raised
       ELSE Raise /\ UNCHANGED trace
    /\ UNCHANGED <<args, cuda_available, train_set, base_encoder, step_count,
                   lr_factor, lr_history, epoch, remaining, batch_ids, batch_idx, x, rep,
                   n_forward, n_updates, applied, meter_count, checkpoints>>

\* line 108, the loss raising
NtXentRaises ==
    /\ pc = "loss"
    /\ Raise
    /\ UNCHANGED <<args, cuda_available, train_set, base_encoder, step_count,
                   lr_factor, lr_history, epoch, remaining, batch_ids, batch_idx, x, rep, targets,
                   trace, n_forward, n_updates, applied, meter_count, checkpoints>>

\* line 109
Backward ==
    /\ pc = "backward"
    /\ trace' = Append(trace, "backward")
    /\ pc' = "optimizer_step"
    /\ UNCHANGED <<args, cuda_available, train_set, raised, base_encoder, step_count,
                   lr_factor, lr_history, epoch, remaining, batch_ids, batch_idx, x, rep, targets,
                   n_forward, n_updates, applied, meter_count, checkpoints>>

OptimizerStepAfterScheduler ==
    /\ pc = "optimizer_step"
    /\ step_count' = step_count + 1
    /\ lr_factor' = lr_lambda(step_count + 1)
    /\ lr_history' = Append(lr_history, lr_lambda(step_count + 1))
    /\ n_updates' = n_updates + 1
    /\ applied' = Append(applied, [step |-> step_count', factor |-> lr_factor'])
    /\ trace' = trace \o <<"optimizer_step", "scheduler_step">>
    /\ pc' = "meter_update"
    /\ UNCHANGED <<args, cuda_available, train_set, raised, base_encoder, epoch,
                   remaining, batch_ids, batch_idx, x, rep, targets, n_forward, meter_count,
                   checkpoints>>

\* line 110: the update uses the multiplier the optimizer holds
OptimizerStep ==
    /\ pc = "optimizer_step"
    /\ n_updates' = n_updates + 1
    /\ applied' = Append(applied, [step |-> step_count, factor |-> lr_factor])
    /\ trace' = Append(trace, "optimizer_step")
    /\ pc' = "scheduler_step"
    /\ UNCHANGED <<args, cuda_available, train_set, raised, base_encoder, step_count,
                   lr_factor, lr_history, epoch, remaining, batch_ids, batch_idx, x, rep, targets,
                   n_forward, meter_count, checkpoints>>

SchedulerStepSkipped ==
    /\ pc = "scheduler_step"
    /\ trace' = Append(trace, "scheduler_step")
    /\ pc' = "meter_update"
    /\ UNCHANGED <<args, cuda_available, train_set, raised, base_encoder, step_count,
                   lr_factor, lr_history, epoch, remaining, batch_ids, batch_idx, x, rep, targets,
                   n_forward, n_updates, applied, meter_count, checkpoints>>

\* line 111: LambdaLR.step advances last_epoch and hands lr_lambda(last_epoch)
\* to the optimizer
SchedulerStep ==
    /\ pc = "scheduler_step"
    /\ step_count' = step_count + 1
    /\ lr_factor' = lr_lambda(step_count + 1)
    /\ lr_history' = Append(lr_history, lr_lambda(step_count + 1))
    /\ trace' = Append(trace, "scheduler_step")
    /\ pc' = "meter_update"
    /\ UNCHANGED <<args, cuda_available, train_set, raised, base_encoder, epoch,
                   remaining, batch_ids, batch_idx, x, rep, targets, n_forward, n_updates, applied,
                   meter_count, checkpoints>>

\* lines 113-114
MeterUpdate ==
    /\ pc = "meter_update"
    /\ meter_count' = meter_count + 1
    /\ trace' = Append(trace, "meter_update")
    /\ pc' = "next_batch"
    /\ UNCHANGED <<args, cuda_available, train_set, raised, base_encoder, step_count,
                   lr_factor, lr_history, epoch, remaining, batch_ids, batch_idx, x, rep, targets,
                   n_forward, n_updates, applied, checkpoints>>

ShouldSaveFromInterval(e, log_interval) == e >= log_interval

\* line 117 (log_interval > 0)
ShouldSave(e, log_interval) == e >= log_interval /\ e % log_interval = 0

\* lines 117-119: a zero log_interval raises ZeroDivisionError in the modulo
EpochEnd ==
    /\ pc = "epoch_end"
    /\ IF args.log_interval = 0
       THEN Raise /\ UNCHANGED checkpoints
       ELSE /\ checkpoints' =
                 IF ShouldSave(epoch, args.log_interval)
                 THEN Append(checkpoints,
                             [name |-> CheckpointName(args.backbone, epoch),
                              updates |-> n_updates])
                 ELSE checkpoints
            /\ pc' = "epoch_head"
            /\ UNCHANGED raised
    /\ UNCHANGED <<args, cuda_available, train_set, base_encoder, step_count,
                   lr_factor, lr_history, epoch, remaining, batch_ids, batch_idx, x, rep, targets,
                   trace, n_forward, n_updates, applied, meter_count>>

\* line 119, torch.save failing
SaveRaises ==
    /\ pc = "epoch_end"
    /\ args.log_interval > 0
    /\ ShouldSave(epoch, args.log_interval)
    /\ Raise
    /\ UNCHANGED <<args, cuda_available, train_set, base_encoder, step_count,
                   lr_factor, lr_history, epoch, remaining, batch_ids, batch_idx, x, rep, targets,
                   trace, n_forward, n_updates, applied, meter_count, checkpoints>>

Next ==
    \/ AssertCuda
    \/ AssertBackbone
    \/ EvalBackbone
    \/ MakeScheduler
    \/ EpochHead
    \/ NextBatch
    \/ Flatten
    \/ ZeroGrad
    \/ Forward
    \/ ForwardRaises
    \/ NtXent
    \/ NtXentRaises
    \/ Backward
    \/ OptimizerStep
    \/ SchedulerStep
    \/ MeterUpdate
    \/ EpochEnd
    \/ SaveRaises

Spec == Init /\ [][Next]_vars

----------------------------------------------------------------------------
\* Properties

IsPrefix(s, t) == Len(s) <= Len(t) /\ \A i \in 1..Len(s) : s[i] = t[i]

NBatches == LenLoader(train_set, args.batch_size)

\* Positions of train() at which x is the flattened batch.
InStep == {"zero_grad", "forward", "loss", "backward", "optimizer_step",
           "scheduler_step", "meter_update"}

\* Positions at which the targets are those of the batch in x.
AfterLoss == {"backward", "optimizer_step", "scheduler_step", "meter_update"}

\* Positions between two batch steps.
BetweenSteps == {"epoch_head", "next_batch", "flatten", "zero_grad", "epoch_end", "done"}

\* C1: the scheduler's step counter is 0 before the first optimizer update, is one
\* behind the number of updates only between an update and its scheduler advance
\* and equal to it everywhere else (so it moves by one per update, by nothing else,
\* and is never reset), never exceeds total_steps, and equals
\* epochs * batches-per-epoch when the run finishes.
C1_StepCounter ==
    /\ step_count >= 0 =>
          /\ step_count = n_updates - (IF pc = "scheduler_step" THEN 1 ELSE 0)
          /\ step_count <= TotalSteps
          /\ n_updates = 0 => step_count = 0
    /\ step_count < 0 => step_count = -1 /\ n_updates = 0
    /\ pc = "done" => step_count = args.epochs * NBatches

C1_Witness == pc = "done" /\ step_count = 6 /\ args.epochs = 3

\* C2: the multiplier the scheduler computes is 1.0 at step 0 and lr_min at
\* step total_steps, for every configured learning_rate.
C2_Endpoints ==
    step_count >= 0 =>
        /\ lr_history[1] = Unit
        /\ step_count = TotalSteps => lr_factor = lr_min_literal

\* C3: the multipliers the scheduler computes never increase along the run, for
\* every configured learning_rate.
C3_NonIncreasing ==
    \A i, j \in DOMAIN lr_history : i < j => lr_history[j] <= lr_history[i]

C5_Flatten ==
    pc \in InStep =>
        LET N == args.batch_size
        IN  /\ x.sizes = <<2 * N>>
            /\ Len(x.storage) = 2 * N
            /\ \A k \in 0..(N - 1) :
                  /\ At(x, 2 * k) = [sample |-> batch_ids[k + 1], draw |-> 0]
                  /\ At(x, 2 * k + 1) = [sample |-> batch_ids[k + 1], draw |-> 1]
            /\ pc \in AfterLoss =>
                  \A i \in 0..(2 * N - 1) :
                      /\ At(x, targets[i]).sample = At(x, i).sample
                      /\ At(x, targets[i]).draw # At(x, i).draw

C5_Witness ==
    /\ pc = "backward"
    /\ args.batch_size = 2
    /\ At(x, 0).sample # At(x, 2).sample
    /\ At(x, targets[3]) = [sample |-> At(x, 3).sample, draw |-> 0]

EpochFinished(e) == epoch > e \/ (epoch = e /\ pc \in {"epoch_head", "done"})

\* C6: every checkpoint written carries the backbone and the number of an epoch
\* that is at least log_interval and a multiple of it, and was written after all
\* of that epoch's batches; every finished epoch of that kind has its checkpoint;
\* no name is written twice; a finished run wrote floor(epochs / log_interval).
C6_Checkpoints ==
    /\ \A i \in DOMAIN checkpoints :
          LET c == checkpoints[i]
          IN  /\ args.log_interval > 0
              /\ c.name.backbone = args.backbone
              /\ c.name.epoch \in 1..epoch
              /\ c.name.epoch >= args.log_interval
              /\ c.name.epoch % args.log_interval = 0
              /\ c.updates = c.name.epoch * NBatches
    /\ \A i, j \in DOMAIN checkpoints :
          i # j => checkpoints[i].name # checkpoints[j].name
    /\ args.log_interval > 0 =>
          /\ \A e \in 1..epoch :
                (EpochFinished(e) /\ e >= args.log_interval /\ e % args.log_interval = 0)
                    => \E i \in DOMAIN checkpoints :
                          checkpoints[i].name = CheckpointName(args.backbone, e)
          /\ pc = "done" => Len(checkpoints) = args.epochs \div args.log_interval

C6_Witness ==
    /\ pc = "done"
    /\ args.epochs = 2
    /\ args.log_interval = 2
    /\ Len(checkpoints) = 1
    /\ checkpoints[1].name.epoch = 2

SmallRun == args.epochs = 1 /\ train_set = 4 /\ args.batch_size = 2

OneCheckpoint ==
    args.log_interval = 1 =>
        /\ Len(checkpoints) = 1
        /\ checkpoints[1].name = CheckpointName(args.backbone, 1)

\* C7 as stated: a finished run with epochs=1, 4 images and batch_size=2 made one
\* optimizer step and, with log_interval=1, wrote one checkpoint named with the
\* backbone and epoch 1.
C7_OneStep == (pc = "done" /\ SmallRun) => (n_updates = 1 /\ OneCheckpoint)

\* C7 amended: a finished run with epochs=1, 4 images and batch_size=2 made two
\* optimizer steps (4 // 2 batches) and, with log_interval=1, wrote one checkpoint
\* named with the backbone and epoch 1.
C7_TwoSteps == (pc = "done" /\ SmallRun) => (n_updates = 2 /\ OneCheckpoint)

C7_Witness ==
    /\ pc = "done"
    /\ SmallRun
    /\ args.log_interval = 1
    /\ n_updates = 2
    /\ Len(checkpoints) = 1

\* C8: without an accelerator, or with a backbone outside the whitelist, train
\* never gets past its assertions: no forward pass, optimizer update, scheduler
\* step or checkpoint happens, and a name outside the whitelist never reaches eval.
C8_Preconditions ==
    (~cuda_available \/ args.backbone \notin Whitelist) =>
        /\ pc \in {"assert_cuda", "assert_backbone", "failed"}
        /\ n_forward = 0
        /\ n_updates = 0
        /\ trace = <<>>
        /\ step_count = -1
        /\ lr_history = <<>>
        /\ checkpoints = <<>>
        /\ base_encoder = "none"

C8_Witness ==
    /\ pc = "failed"
    /\ cuda_available
    /\ args.backbone \notin Whitelist
    /\ base_encoder = "none"

C9_Order ==
    /\ IsPrefix(trace, StepOrder)
    /\ pc \in BetweenSteps => (step_count = n_updates /\ trace \in {<<>>, StepOrder})

\* C9: the events of a batch's step occur in the order zero_grad, forward, loss,
\* backward, optimizer step, scheduler step, meter update; a step begins only when
\* the previous one has run to its end; every optimizer update follows exactly a
\* gradient reset, a forward pass, a loss and one backward pass of its own step;
\* and once an exception is raised no optimizer update, scheduler advance, forward
\* pass or checkpoint write follows.
C9_Sequential ==
    /\ []C9_Order
    /\ [][n_updates' # n_updates =>
             /\ n_updates' = n_updates + 1
             /\ trace = SubSeq(StepOrder, 1, 4)]_vars
    /\ [][(trace # <<>> /\ trace' = <<>>) => trace = StepOrder]_vars
    /\ [][raised =>
             /\ n_updates' = n_updates
             /\ step_count' = step_count
             /\ n_forward' = n_forward
             /\ checkpoints' = checkpoints]_vars

C9_Witness ==
    /\ pc = "failed"
    /\ raised
    /\ n_updates >= 1
    /\ trace = <<"zero_grad", "forward">>

\* C10: the j-th optimizer update is made with the multiplier computed for step
\* j-1; the multiplier for step total_steps is computed after the last update and
\* no update is made with it.
C10_AppliedMultiplier ==
    /\ Len(applied) = n_updates
    /\ \A j \in DOMAIN applied :
          /\ applied[j].step = j - 1
          /\ applied[j].step < TotalSteps
          /\ applied[j].factor = lr_lambda(j - 1)
          /\ applied[j].factor = lr_history[j]
    /\ pc = "done" =>
          /\ Len(applied) = TotalSteps
          /\ Len(lr_history) = TotalSteps + 1
          /\ lr_factor = lr_lambda(TotalSteps)
          /\ lr_history[TotalSteps + 1] = lr_factor

C10_Witness ==
    /\ pc = "done"
    /\ Len(applied) = 4
    /\ applied[4].factor > lr_factor

====
